---------------------------- MODULE Spec2Model ----------------------------
(***************************************************************************)
(* Model of telegram-mx-automation.                                        *)
(*                                                                         *)
(*   src/unnamed/part_000  the minimal webhook server (no secret check)    *)
(*   src/server.js         the earlier webhook server (optional secret,    *)
(*                         several reaction locations, "dislike" token)    *)
(*   src/apps_script.gs    the Apps Script endpoint doPost (the ledger)    *)
(*                                                                         *)
(* Strings are sequences of characters.  A JavaScript value that may be    *)
(* null/undefined is a record: None, or Str(s) for the string s.           *)
(***************************************************************************)
EXTENDS Integers, Sequences, FiniteSets, TLC

VARIABLES
    text,       \* extractBarcode: its argument
    brev,       \* extractBarcode: which file's function ran ("none" before)
    barcode,    \* extractBarcode: its return value (Unset before the call)
    update,     \* analyzeReactions: its argument, a Telegram update
    arev,       \* analyzeReactions: which file's function ran ("none" before)
    analysis,   \* analyzeReactions: its return value (Unset before the call)
    wrev,       \* webhook: the server that runs, "part_000" or "server"
    secret,     \* webhook: WEBHOOK_SECRET, "" when not configured
    urlSet,     \* webhook: whether APPS_SCRIPT_URL is configured
    req,        \* webhook: the call being handled, None when there is none
    wpc,        \* webhook: "idle", "awaiting" (the fetch) or "responded"
    hBarcode,   \* webhook: the handler's `barcode` (Unset until extracted)
    hAnalysis,  \* webhook: the handler's `analysis` (Unset until analysed)
    posts,      \* webhook: the bodies of the fetch calls made for the call
    fetched,    \* webhook: "none", "pending", "fulfilled" or "rejected"
    responses,  \* webhook: the responses sent for the call
    sheets,     \* ledger: the spreadsheet, sheets[s][k] is row k of sheet s
    lpc,        \* ledger: where each doPost execution stands
    lreq,       \* ledger: the event `e` of each execution
    lsheet,     \* ledger: the sheet each execution is at in sheets.forEach
    ldata,      \* ledger: `data`, the rows each execution read from its sheet
    lrow,       \* ledger: the row each execution is about to write
    lupdated,   \* ledger: `updated` of each execution
    lresp,      \* ledger: what each execution returned
    lpre,       \* history: the spreadsheet as it was when the execution began
    lpreDecided, \* history: `decided` as it was when the execution began
    lfailed,    \* history: whether an execution has returned ok: false
    lcounted,   \* history: the rows <<s, k>> each execution counted
    decided,    \* history: per row, the first status and user written to it
    lastG,      \* history: per row, the execution that wrote its G cell last
    lastI       \* history: per row, the execution that wrote its I cell last

bvars == <<text, brev, barcode>>
avars == <<update, arev, analysis>>
wconf == <<wrev, secret, urlSet>>
wvars == <<wrev, secret, urlSet, req, wpc, hBarcode, hAnalysis, posts, fetched,
           responses>>
lvars == <<sheets, lpc, lreq, lsheet, ldata, lrow, lupdated, lresp, lpre,
           lpreDecided, lfailed, lcounted, decided, lastG, lastI>>
vars == <<text, brev, barcode, update, arev, analysis, wrev, secret, urlSet, req,
          wpc, hBarcode, hAnalysis, posts, fetched, responses, sheets, lpc, lreq,
          lsheet, ldata, lrow, lupdated, lresp, lpre, lpreDecided, lfailed,
          lcounted, decided, lastG, lastI>>

None == [k |-> "null"]
\* A result or a local that has not been assigned.
Unset == [k |-> "unset"]
Str(s) == [k |-> "str", v |-> s]

\* The webhook server is not part of a specification of one function.
WebhookUnused ==
    /\ wrev = "none" /\ secret = <<>> /\ urlSet = FALSE /\ req = None
    /\ wpc = "idle" /\ hBarcode = Unset /\ hAnalysis = Unset
    /\ posts = <<>> /\ fetched = "none" /\ responses = <<>>

\* The ledger is not part of a specification of the webhook server.
LedgerUnused ==
    /\ sheets = <<>> /\ lpc = <<>> /\ lreq = <<>> /\ lsheet = <<>> /\ ldata = <<>>
    /\ lrow = <<>> /\ lupdated = <<>> /\ lresp = <<>> /\ lpre = <<>>
    /\ lpreDecided = <<>> /\ lfailed = FALSE
    /\ lcounted = <<>> /\ decided = <<>> /\ lastG = <<>> /\ lastI = <<>>

Min(S) == CHOOSE x \in S : \A y \in S : x <= y
Max(S) == CHOOSE x \in S : \A y \in S : x >= y

(***************************************************************************)
(* extractBarcode: the regular expression /\d{11,13}/.                      *)
(***************************************************************************)
MinDigits == 11
MaxDigits == 13

DigitChars == {"0", "1", "2", "3", "4", "5", "6", "7", "8", "9"}
IsDigit(c) == c \in DigitChars

\* How many characters \d{11,13} consumes when tried at position i: the
\* quantifier is greedy, so it takes digits while there are some, up to
\* MaxDigits; the attempt fails (0) when fewer than MinDigits are there.
QuantifierAt(s, i) ==
    LET n == Max({k \in 0..MaxDigits :
                     \A j \in 0..(k - 1) : i + j <= Len(s) /\ IsDigit(s[i + j])})
    IN  IF n >= MinDigits THEN n ELSE 0

\* String.prototype.match with a non-global regex: the leftmost position
\* where the pattern matches, and the text it matched there; null when none.
\* The mutant takes the shortest match (a lazy quantifier \d{11,13}?).
RegexMatchLazy(s) ==
    LET starts == {i \in 1..Len(s) : QuantifierAt(s, i) > 0}
    IN  IF starts = {} THEN None
        ELSE LET i == Min(starts)
             IN  Str(SubSeq(s, i, i + MinDigits - 1))

RegexMatch(s) ==
    LET starts == {i \in 1..Len(s) : QuantifierAt(s, i) > 0}
    IN  IF starts = {} THEN None
        ELSE LET i == Min(starts)
             IN  Str(SubSeq(s, i, i + QuantifierAt(s, i) - 1))

\* part_000: text?.match(/\d{11,13}/), then match[0] or null.
extractBarcode(t) ==
    IF t = None THEN None ELSE RegexMatch(t.v)

\* server.js: if (!text) return null; text.match(/(\d{11,13})/), then m[1].
extractBarcode_server(t) ==
    IF t = None \/ t.v = <<>> THEN None ELSE RegexMatch(t.v)

(***************************************************************************)
(* The texts extractBarcode is applied to: an absent text, and every text  *)
(* made of two digit runs of 0..MaxRun digits (the first of "1"s, the      *)
(* second of "2"s), each optionally preceded and followed by a letter.     *)
(***************************************************************************)
MaxRun == 14

Repeat(c, n) == [i \in 1..n |-> c]
Letters == {<<>>, <<"x">>}

Texts ==
    {None} \cup
    {Str(a \o Repeat("1", n1) \o b \o Repeat("2", n2) \o c) :
        a \in Letters, b \in Letters, c \in Letters,
        n1 \in 0..MaxRun, n2 \in 0..MaxRun}

InitBarcode ==
    /\ text \in Texts
    /\ brev = "none"
    /\ barcode = Unset
    /\ update = None /\ arev = "none" /\ analysis = Unset
    /\ WebhookUnused /\ LedgerUnused

ExtractMinimal ==
    /\ brev = "none"
    /\ barcode' = extractBarcode(text)
    /\ brev' = "part_000"
    /\ UNCHANGED <<text, avars, wvars, lvars>>

ExtractServer ==
    /\ brev = "none"
    /\ barcode' = extractBarcode_server(text)
    /\ brev' = "server"
    /\ UNCHANGED <<text, avars, wvars, lvars>>

NextBarcode == ExtractMinimal \/ ExtractServer

SpecBarcode == InitBarcode /\ [][NextBarcode]_vars

(***************************************************************************)
(* C8                                                                      *)
(***************************************************************************)
\* The maximal runs of consecutive digits of s, as <<start, length>>.
DigitRuns(s) ==
    {<<i, n>> \in (1..Len(s)) \X (1..Len(s)) :
        /\ i + n - 1 <= Len(s)
        /\ \A j \in i..(i + n - 1) : IsDigit(s[j])
        /\ (i = 1 \/ ~IsDigit(s[i - 1]))
        /\ (i + n - 1 = Len(s) \/ ~IsDigit(s[i + n]))}

RunsOfLength(s, lo, hi) == {r \in DigitRuns(s) : r[2] >= lo /\ r[2] <= hi}
FirstRun(R) == CHOOSE r \in R : \A q \in R : r[1] <= q[1]

AllDigits(s) == \A j \in 1..Len(s) : IsDigit(s[j])

\* C8 as claimed: when the text holds a run of exactly 11, 12 or 13 digits,
\* extractBarcode returns the first such run; when the text is absent or
\* empty, or its longest run is shorter than 11, it returns null; every
\* non-null result is 11 to 13 digits.
C8_AsClaimed ==
    brev # "none" =>
        /\ (text # None /\ RunsOfLength(text.v, MinDigits, MaxDigits) # {}) =>
              LET r == FirstRun(RunsOfLength(text.v, MinDigits, MaxDigits))
              IN  barcode = Str(SubSeq(text.v, r[1], r[1] + r[2] - 1))
        /\ (text = None \/ RunsOfLength(text.v, MinDigits, Len(text.v)) = {}) =>
              barcode = None
        /\ barcode # None =>
              Len(barcode.v) \in MinDigits..MaxDigits /\ AllDigits(barcode.v)

\* C8 amended: when the text holds a run of at least 11 digits,
\* extractBarcode returns the first 13 digits of the first such run, or the
\* whole run when it is 11, 12 or 13 digits long; when the text is absent or
\* empty, or its longest run is shorter than 11, it returns null; every
\* non-null result is 11 to 13 digits.
C8_FirstLongRunPrefix ==
    brev # "none" =>
        /\ (text # None /\ RunsOfLength(text.v, MinDigits, Len(text.v)) # {}) =>
              LET r == FirstRun(RunsOfLength(text.v, MinDigits, Len(text.v)))
                  n == IF r[2] > MaxDigits THEN MaxDigits ELSE r[2]
              IN  barcode = Str(SubSeq(text.v, r[1], r[1] + n - 1))
        /\ (text = None \/ RunsOfLength(text.v, MinDigits, Len(text.v)) = {}) =>
              barcode = None
        /\ barcode # None =>
              Len(barcode.v) \in MinDigits..MaxDigits /\ AllDigits(barcode.v)

\* A run of more than 13 digits precedes a run of exactly 11 to 13, and the
\* call has returned the first 13 digits of the long run.
C8_Witness ==
    /\ brev # "none"
    /\ text # None
    /\ \E r \in RunsOfLength(text.v, MaxDigits + 1, Len(text.v)) :
       \E q \in RunsOfLength(text.v, MinDigits, MaxDigits) :
           /\ r[1] < q[1]
           /\ barcode = Str(SubSeq(text.v, r[1], r[1] + MaxDigits - 1))

(***************************************************************************)
(* analyzeReactions (part_000) and analyzeReactionsFromUpdate (server.js). *)
(*                                                                         *)
(* An emoji is a string of UTF-16 code units, each written as its hex      *)
(* name.  A date of 0 stands for an absent date: both files read a date    *)
(* with `r.date || ...`, which treats 0 and absent alike.  A name field of *)
(* "" stands for an absent field, for the same reason.  An array is        *)
(* Arr(l); the update's `reaction` object is [k |-> "obj", emoji |-> e].   *)
(***************************************************************************)
Arr(l) == [k |-> "arr", v |-> l]

\* U+1F44D and U+1F44E as JavaScript strings: a surrogate pair each.
ThumbsUp == <<"D83D", "DC4D">>
ThumbsDown == <<"D83D", "DC4E">>
\* The literals as server.js holds them: the UTF-8 bytes of the two glyphs
\* read as Windows-1252 (F0 9F 91 8D loses its last byte, F0 9F 91 8E keeps
\* it as U+017D).
ServerLikeLiteral == <<"00F0", "0178", "2018">>
ServerDislikeLiteral == <<"00F0", "0178", "2018", "017D">>
DislikeWord == <<"d", "i", "s", "l", "i", "k", "e">>

\* The status strings: 'Найдено' and 'Не найдено' in part_000; server.js
\* holds the same bytes read as Windows-1252, which are other strings.
StatusFound == "Found"
StatusNotFound == "NotFound"
ServerStatusFound == "Found (mis-encoded)"
ServerStatusNotFound == "NotFound (mis-encoded)"
Unknown == "Unknown"
ServerUnknown == "Unknown (mis-encoded)"

\* String.prototype.includes / indexOf(...) !== -1 on code units.
Includes(s, p) ==
    \E i \in 1..(Len(s) - Len(p) + 1) : SubSeq(s, i, i + Len(p) - 1) = p

\* String.prototype.toLowerCase on the code units the inputs use.
ToLowerUnit(c) == IF c = "D" THEN "d" ELSE c
ToLowerCase(s) == [i \in 1..Len(s) |-> ToLowerUnit(s[i])]

\* a.last_name || a.username || a.first_name || fallback, for an actor that
\* may be absent (r.actor?. in part_000, `|| {}` in server.js).
ResolveName(actor, fallback) ==
    IF actor = None THEN fallback
    ELSE IF actor.last_name # "" THEN actor.last_name
    ELSE IF actor.username # "" THEN actor.username
    ELSE IF actor.first_name # "" THEN actor.first_name
    ELSE fallback

(***************************************************************************)
(* Array.prototype.sort as V8 runs it on fewer than 64 elements: the       *)
(* leading run is counted (and reversed when strictly descending), and the *)
(* rest is inserted by binary insertion.  cmp[a][b] is the comparator.     *)
(***************************************************************************)
Reverse(l) == [i \in 1..Len(l) |-> l[Len(l) + 1 - i]]

\* CountAndMakeRun's loop: the run l[1..n] so far, extended while the order
\* of each element against its predecessor keeps the run's direction.
RECURSIVE RunLength(_, _, _, _)
RunLength(l, cmp, descending, n) ==
    IF n >= Len(l) THEN n
    ELSE LET order == cmp[l[n + 1]][l[n]]
         IN  IF descending
             THEN IF order >= 0 THEN n ELSE RunLength(l, cmp, descending, n + 1)
             ELSE IF order < 0 THEN n ELSE RunLength(l, cmp, descending, n + 1)

\* BinaryInsertionSort's inner loop: where the pivot goes in l[left..right-1]
\* (1-based, right exclusive).
RECURSIVE InsertionPoint(_, _, _, _, _)
InsertionPoint(l, cmp, pivot, left, right) ==
    IF left >= right THEN left
    ELSE LET mid == left + ((right - left) \div 2)
         IN  IF cmp[pivot][l[mid]] < 0
             THEN InsertionPoint(l, cmp, pivot, left, mid)
             ELSE InsertionPoint(l, cmp, pivot, mid + 1, right)

\* BinaryInsertionSort's outer loop: l[1..start-1] is sorted, l[start] is
\* inserted next.
RECURSIVE BinaryInsertionSort(_, _, _)
BinaryInsertionSort(l, cmp, start) ==
    IF start > Len(l) THEN l
    ELSE LET pivot == l[start]
             at == InsertionPoint(l, cmp, pivot, 1, start)
             moved == [i \in 1..Len(l) |->
                         IF i < at \/ i > start THEN l[i]
                         ELSE IF i = at THEN pivot
                         ELSE l[i - 1]]
         IN  BinaryInsertionSort(moved, cmp, start + 1)

ArraySort(l, cmp) ==
    IF Len(l) < 2 THEN l
    ELSE LET descending == cmp[l[2]][l[1]] < 0
             n == RunLength(l, cmp, descending, 2)
             run == IF descending
                    THEN Reverse(SubSeq(l, 1, n)) \o SubSeq(l, n + 1, Len(l))
                    ELSE l
         IN  BinaryInsertionSort(run, cmp, n + 1)

\* The sort works on positions, so that equal candidates stay apart:
\* cmp[i][j] is the comparator's value on l[i] and l[j].
SortBy(l, cmp) ==
    LET idx == [i \in 1..Len(l) |-> i]
        sorted == ArraySort(idx, cmp)
    IN  [i \in 1..Len(l) |-> l[sorted[i]]]

(***************************************************************************)
(* part_000: analyzeReactions                                              *)
(***************************************************************************)
\* update.message?.reactions
ReactionsOf(m) == IF m = None THEN None ELSE m.reactions

\* a || b for values of which only None is falsy (an empty array is truthy).
Or(a, b) == IF a # None THEN a ELSE b

Candidate(r) ==
    [emoji |-> r.emoji, name |-> ResolveName(r.actor, Unknown), ts |-> r.date]

CompareTs(a, b) == a.ts - b.ts

FinalStatus(hasLike, hasDislike) ==
    IF hasLike THEN Str(StatusFound)
    ELSE IF hasDislike THEN Str(StatusNotFound)
    ELSE None

Candidates(u) ==
    LET reactions ==
            Or(ReactionsOf(u.message), Or(ReactionsOf(u.edited_message), Arr(<<>>)))
        mapped == [i \in 1..Len(reactions.v) |-> Candidate(reactions.v[i])]
    IN  IF mapped = <<>> /\ u.reaction # None /\ u.from # None
        THEN <<[emoji |-> u.reaction.emoji,
                name |-> ResolveName(u.from, Unknown),
                ts |-> u.date]>>
        ELSE mapped

analyzeReactions(u) ==
    LET candidates == Candidates(u)
        hasLike == \E i \in 1..Len(candidates) :
                      /\ candidates[i].emoji # None
                      /\ Includes(candidates[i].emoji.v, ThumbsUp)
        hasDislike == \E i \in 1..Len(candidates) :
                      /\ candidates[i].emoji # None
                      /\ Includes(candidates[i].emoji.v, ThumbsDown)
        sorted == SortBy(candidates,
                         [i \in 1..Len(candidates) |-> [j \in 1..Len(candidates) |->
                             CompareTs(candidates[i], candidates[j])]])
        last == sorted[Len(sorted)]
    IN  IF candidates = <<>> THEN None
        ELSE [k |-> "analysis",
              status |-> FinalStatus(hasLike, hasDislike),
              lastReactor |-> last.name]

(***************************************************************************)
(* server.js: analyzeReactionsFromUpdate                                   *)
(***************************************************************************)
\* r.emoji || r.type || '' (the inputs carry no `type`): a string always.
EmojiOrEmpty(e) == IF e = None \/ e.v = <<>> THEN <<>> ELSE e.v

ServerCandidate(r) ==
    [emoji |-> EmojiOrEmpty(r.emoji),
     name |-> ResolveName(r.actor, ServerUnknown),
     ts |-> r.date]

\* if (a.ts && b.ts) return a.ts - b.ts; return 0;
ServerCompareTs(a, b) == IF a.ts # 0 /\ b.ts # 0 THEN a.ts - b.ts ELSE 0

ServerFinalStatus(hasLike, hasDislike) ==
    IF hasLike THEN Str(ServerStatusFound)
    ELSE IF hasDislike THEN Str(ServerStatusNotFound)
    ELSE None

\* Lines 42-64: where the reactions are looked for.  `reactions` ends as an
\* array, as the update's `reaction` object, or as null.
ServerReactions(u) ==
    LET r1 == ReactionsOf(u.message)
        r2 == Or(r1, ReactionsOf(u.edited_message))
        r3 == Or(r2, ReactionsOf(u.messageReaction))
        r4 == Or(r3, u.reaction)
        r5 == IF r4 # None THEN r4
              ELSE IF u.reaction # None /\ EmojiOrEmpty(u.reaction.emoji) # <<>>
              THEN Arr(<<[emoji |-> u.reaction.emoji, actor |-> u.from, date |-> 0]>>)
              ELSE None
    IN  r5

ServerCandidates(u) ==
    LET reactions == ServerReactions(u)
        mapped == IF reactions # None /\ reactions.k = "arr"
                  THEN [i \in 1..Len(reactions.v) |-> ServerCandidate(reactions.v[i])]
                  ELSE <<>>
    IN  IF mapped = <<>> /\ u.reaction # None /\ u.from # None
        THEN <<[emoji |-> EmojiOrEmpty(u.reaction.emoji),
                name |-> ResolveName(u.from, ServerUnknown),
                ts |-> u.date]>>
        ELSE mapped

analyzeReactionsFromUpdate(u) ==
    LET candidates == ServerCandidates(u)
        hasLike == \E i \in 1..Len(candidates) :
                      /\ candidates[i].emoji # <<>>
                      /\ Includes(candidates[i].emoji, ServerLikeLiteral)
        hasDislike == \E i \in 1..Len(candidates) :
                      /\ candidates[i].emoji # <<>>
                      /\ \/ Includes(candidates[i].emoji, ServerDislikeLiteral)
                         \/ Includes(ToLowerCase(candidates[i].emoji), DislikeWord)
        sorted == SortBy(candidates,
                         [i \in 1..Len(candidates) |-> [j \in 1..Len(candidates) |->
                             ServerCompareTs(candidates[i], candidates[j])]])
        last == sorted[Len(sorted)]
    IN  IF candidates = <<>> THEN None
        ELSE [k |-> "analysis",
              status |-> ServerFinalStatus(hasLike, hasDislike),
              lastReactor |-> last.name]

(***************************************************************************)
(* The updates the two functions are applied to.                           *)
(***************************************************************************)
MaxReactions == 3
MaxDate == 2

Heart == <<"2764">>
\* Thumbs-up followed by a skin-tone modifier (U+1F3FB).
ThumbsUpTone == ThumbsUp \o <<"D83C", "DFFB">>
DislikeToken == <<"D", "i", "s", "l", "i", "k", "e">>

ListEmojis == {None, Str(ThumbsUp), Str(ThumbsDown), Str(Heart)}
AllEmojis == ListEmojis \cup
             {Str(ThumbsUpTone), Str(DislikeToken), Str(<<>>),
              Str(ServerLikeLiteral), Str(ServerDislikeLiteral)}

\* The actor of the i-th reaction: the first has every name field, the
\* second no last name, the third a first name only, the fourth no field,
\* and the fifth is absent; then again.
ActorAt(i) ==
    LET n == ToString(i)
        shape == (i - 1) % 5
    IN  IF shape = 4 THEN None
        ELSE [last_name |-> IF shape = 0 THEN "L" \o n ELSE "",
              username |-> IF shape \in {0, 1} THEN "U" \o n ELSE "",
              first_name |-> IF shape \in {0, 1, 2} THEN "F" \o n ELSE ""]

FromActor == [last_name |-> "", username |-> "sender", first_name |-> "Sender"]

\* The reaction arrays of exactly n entries over the emojis E.
ReactionLists(n, E) ==
    {[i \in 1..n |-> [emoji |-> f[i][1], actor |-> ActorAt(i), date |-> f[i][2]]] :
        f \in [1..n -> E \X (0..MaxDate)]}

Message(reactions) == [text |-> None, caption |-> None, reactions |-> reactions]

NoUpdate ==
    [message |-> None, edited_message |-> None, messageReaction |-> None,
     reaction |-> None, from |-> None, date |-> 0]

\* Reactions on the message, of every length up to MaxReactions.
MessageUpdates ==
    {[NoUpdate EXCEPT !.message = Message(Arr(l))] :
        l \in UNION {ReactionLists(n, ListEmojis) : n \in 0..MaxReactions}}

\* Reactions elsewhere: at most one entry, on the edited message or in the
\* messageReaction field, with the message absent, without reactions or
\* with an empty array of them, and with or without a single reaction event
\* (update.reaction, update.from, update.date).
ShortLists ==
    {None} \cup {Arr(l) : l \in ReactionLists(0, AllEmojis) \cup ReactionLists(1, AllEmojis)}

EventUpdates ==
    {[message |-> m, edited_message |-> e, messageReaction |-> mr,
      reaction |-> r, from |-> f, date |-> d] :
        m \in {None, Message(None), Message(Arr(<<>>))},
        e \in {None} \cup {Message(l) : l \in ShortLists},
        mr \in {None} \cup {[reactions |-> l] : l \in {None, Arr(<<>>)}},
        r \in {None} \cup {[k |-> "obj", emoji |-> x] : x \in AllEmojis},
        f \in {None, FromActor},
        d \in 0..MaxDate}

AnalysisUpdates == MessageUpdates \cup EventUpdates

InitAnalysis ==
    /\ update \in AnalysisUpdates
    /\ arev = "none"
    /\ analysis = Unset
    /\ text = None /\ brev = "none" /\ barcode = Unset
    /\ WebhookUnused /\ LedgerUnused

AnalyzeMinimal ==
    /\ arev = "none" /\ update # None
    /\ analysis' = analyzeReactions(update)
    /\ arev' = "part_000"
    /\ UNCHANGED <<update, bvars, wvars, lvars>>

AnalyzeServer ==
    /\ arev = "none" /\ update # None
    /\ analysis' = analyzeReactionsFromUpdate(update)
    /\ arev' = "server"
    /\ UNCHANGED <<update, bvars, wvars, lvars>>

NextAnalysis == AnalyzeMinimal \/ AnalyzeServer

SpecAnalysis == InitAnalysis /\ [][NextAnalysis]_vars

(***************************************************************************)
(* C2, C3                                                                  *)
(***************************************************************************)
\* The candidate list the function that ran built, each emoji as a string
\* ('' for an absent one).
BuiltCandidates ==
    IF arev = "server" THEN ServerCandidates(update)
    ELSE LET c == Candidates(update)
         IN  [i \in 1..Len(c) |-> [c[i] EXCEPT !.emoji = EmojiOrEmpty(c[i].emoji)]]

HasGlyph(c, glyph) == \E i \in 1..Len(c) : Includes(c[i].emoji, glyph)

IsFound(st) == st \in {Str(StatusFound), Str(ServerStatusFound)}
IsNotFound(st) == st \in {Str(StatusNotFound), Str(ServerStatusNotFound)}

StatusByPrecedence(c, st) ==
    /\ HasGlyph(c, ThumbsUp) => IsFound(st)
    /\ (~HasGlyph(c, ThumbsUp) /\ HasGlyph(c, ThumbsDown)) => IsNotFound(st)
    /\ (~HasGlyph(c, ThumbsUp) /\ ~HasGlyph(c, ThumbsDown)) => st = None

\* C2: for every non-empty candidate list, the status is "Found" when a
\* candidate's emoji contains thumbs-up (whatever the thumbs-down
\* candidates), "NotFound" when none contains thumbs-up and one contains
\* thumbs-down, null when neither glyph occurs; with no candidate at all the
\* function returns null.  (Either encoding of a status string counts.)
C2_ApprovePrecedence ==
    arev # "none" =>
        LET c == BuiltCandidates
        IN  /\ c = <<>> => analysis = None
            /\ c # <<>> => analysis # None /\ StatusByPrecedence(c, analysis.status)

\* C2 for part_000 alone.
C2_ApprovePrecedenceMinimal ==
    arev = "part_000" => C2_ApprovePrecedence

\* part_000 has returned "Found" for a list that holds thumbs-down before
\* and after a thumbs-up.
C2_WitnessMinimal ==
    /\ arev = "part_000"
    /\ analysis # None /\ analysis.status = Str(StatusFound)
    /\ LET c == BuiltCandidates
       IN  \E i, j, l \in 1..Len(c) :
              /\ i < j /\ j < l
              /\ Includes(c[i].emoji, ThumbsDown)
              /\ Includes(c[j].emoji, ThumbsUp)
              /\ Includes(c[l].emoji, ThumbsDown)

DefinedTs(c) == {c[i].ts : i \in {j \in 1..Len(c) : c[j].ts # 0}}

\* C3: when at least one candidate has a timestamp, lastReactor is the name
\* of a candidate whose timestamp is the maximum among the candidates that
\* have one.
C3_LastReactorMaxTs ==
    (arev # "none" /\ DefinedTs(BuiltCandidates) # {}) =>
        LET c == BuiltCandidates
            top == Max(DefinedTs(c))
        IN  /\ analysis # None
            /\ \E i \in 1..Len(c) : c[i].ts = top /\ analysis.lastReactor = c[i].name

\* C3 for part_000 alone.
C3_LastReactorMaxTsMinimal ==
    arev = "part_000" => C3_LastReactorMaxTs

\* part_000 has named the candidate with the latest date, which is not the
\* last of a list that mixes entries with and without a date.
C3_WitnessMinimal ==
    /\ arev = "part_000"
    /\ LET c == BuiltCandidates
       IN  /\ Len(c) >= 3
           /\ c[1].ts = 0 /\ c[2].ts = MaxDate /\ c[3].ts # MaxDate
           /\ analysis.lastReactor = c[2].name

(***************************************************************************)
(* app.post('/webhook') of part_000 and of server.js.                      *)
(*                                                                         *)
(* The handler runs to its first response or to `await fetch(...)`         *)
(* (Receive); the fetch promise then settles (FetchFulfilled with the      *)
(* endpoint's HTTP status, which the handler does not read, or             *)
(* FetchRejected) and the handler resumes.  `posts` holds the body of      *)
(* every fetch call with method POST.                                      *)
(***************************************************************************)
Response(code, body) == [code |-> code, body |-> body]

\* a || b for strings: an absent or empty string is falsy.
OrStr(a, b) == IF a # None /\ a.v # <<>> THEN a ELSE b

\* part_000 lines 60-61.
MessageOf(u) == Or(u.message, u.edited_message)
TextOf(m) == IF m = None THEN Str(<<>>) ELSE OrStr(m.text, OrStr(m.caption, Str(<<>>)))

\* server.js lines 120-121.
ServerMessageOf(u) ==
    Or(u.message, Or(u.edited_message, Or(u.channel_post, u.edited_channel_post)))

\* message.chat?.id || null and message.message_id || null (0: absent).
Payload(b, a, m) ==
    [barcode |-> b, status |-> a.status, user |-> a.lastReactor,
     chatId |-> IF m.chat = None THEN 0 ELSE m.chat.id,
     messageId |-> m.message_id]

\* server.js lines 111-116: the call is refused when a secret is configured
\* and the x-webhook-secret header (or '' without one) differs from it.
\* The mutant compares the header even when no secret is configured.
SecretRefusesUnconfigured(header) == header # secret

SecretRefuses(header) == secret # <<>> /\ header # secret

\* if (!analysis?.status): whether the analysis names a status.
\* The mutant forwards whenever the analysis is not null.
HasStatusAnyAnalysis(a) == a # None

HasStatus(a) == a # None /\ a.status # None

\* The response after the fetch settled: 200 'ok' from the try block, 500
\* 'error' from the catch block.  The mutant answers 200 in the catch block.
SettledResponseAlwaysOk(outcome) == Response(200, "ok")

SettledResponse(outcome) ==
    IF outcome = "fulfilled" THEN Response(200, "ok") ELSE Response(500, "error")

\* The fetch calls after a rejected fetch: the catch block makes none.
PostsAfterRejection(p) == p

\* The handler from its start to its first response or to the fetch call.
\* st is the state it leaves: its locals, the fetch calls, the responses.
HandlerStart(rev, u, header) ==
    LET refused == rev = "server" /\ SecretRefuses(header)
        m == IF rev = "server" THEN ServerMessageOf(u) ELSE MessageOf(u)
        t == TextOf(m)
        b == IF rev = "server" THEN extractBarcode_server(t) ELSE extractBarcode(t)
        a == IF rev = "server" THEN analyzeReactionsFromUpdate(u)
             ELSE analyzeReactions(u)
    IN  IF refused
        THEN [barcode |-> Unset, analysis |-> Unset, posts |-> <<>>,
              responses |-> <<Response(401, "Invalid secret")>>]
        ELSE IF b = None
        THEN [barcode |-> b, analysis |-> Unset, posts |-> <<>>,
              responses |-> <<Response(200, "no barcode")>>]
        ELSE IF ~HasStatus(a)
        THEN [barcode |-> b, analysis |-> a, posts |-> <<>>,
              responses |-> <<Response(200, "no relevant reaction")>>]
        ELSE [barcode |-> b, analysis |-> a, posts |-> <<Payload(b, a, m)>>,
              responses |-> <<>>]

(***************************************************************************)
(* The calls the webhook receives.                                         *)
(***************************************************************************)
Secrets == {<<>>, <<"s">>}
Headers == {<<>>, <<"s">>, <<"t">>}

Words(n) == <<"i", "t", "e", "m", " ">> \o Repeat("1", n)

\* The `text` and `caption` of a message.
TextPairs ==
    {<<None, None>>, <<Str(<<"h", "i">>), None>>, <<Str(Words(MinDigits)), None>>,
     <<None, Str(Words(MaxDigits))>>, <<Str(<<>>), Str(Words(MinDigits + 1))>>,
     <<Str(Words(MinDigits - 1)), Str(Words(MinDigits))>>}

WebEmojis == {Str(ThumbsUp), Str(ThumbsDown), Str(Heart)}

WebLists ==
    {None} \cup {Arr(l) : l \in ReactionLists(0, WebEmojis) \cup ReactionLists(1, WebEmojis)}
         \cup {Arr(<<[emoji |-> Str(ThumbsDown), actor |-> ActorAt(1), date |-> MaxDate],
                      [emoji |-> Str(ThumbsUp), actor |-> ActorAt(2), date |-> 0]>>)}

WebMessages ==
    {[text |-> tc[1], caption |-> tc[2], reactions |-> l,
      chat |-> c, message_id |-> 9] :
        tc \in TextPairs, l \in WebLists, c \in {[id |-> 7]}}

NoWebUpdate ==
    [message |-> None, edited_message |-> None, channel_post |-> None,
     edited_channel_post |-> None, messageReaction |-> None,
     reaction |-> None, from |-> None, date |-> 0]

WebUpdates ==
    {[[NoWebUpdate EXCEPT ![field] = m] EXCEPT !.reaction = r, !.from = f] :
        field \in {"message", "edited_message", "channel_post"},
        m \in {None} \cup WebMessages,
        r \in {None, [k |-> "obj", emoji |-> Str(ThumbsUp)]},
        f \in {None, FromActor}}

InitWebhook ==
    /\ wrev \in {"part_000", "server"}
    /\ secret \in Secrets
    /\ urlSet \in BOOLEAN
    /\ req = None
    /\ wpc = "idle"
    /\ hBarcode = Unset /\ hAnalysis = Unset
    /\ posts = <<>> /\ fetched = "none" /\ responses = <<>>
    /\ text = None /\ brev = "none" /\ barcode = Unset
    /\ update = None /\ arev = "none" /\ analysis = Unset
    /\ LedgerUnused

\* An inbound call arrives and the handler runs to its first response or to
\* the fetch call.
Receive ==
    /\ wpc = "idle"
    /\ \E u \in WebUpdates, header \in Headers :
       \E st \in {HandlerStart(wrev, u, header)} :
          /\ req' = [update |-> u, header |-> header]
          /\ hBarcode' = st.barcode
          /\ hAnalysis' = st.analysis
          /\ posts' = st.posts
          /\ responses' = st.responses
          /\ fetched' = IF st.posts = <<>> THEN "none" ELSE "pending"
          /\ wpc' = IF st.posts = <<>> THEN "responded" ELSE "awaiting"
    /\ UNCHANGED <<wconf, bvars, avars, lvars>>

\* The endpoint answered, with whatever HTTP status: the promise is
\* fulfilled and the try block goes on to res.status(200).send('ok').
FetchFulfilled ==
    /\ wpc = "awaiting" /\ urlSet
    /\ \E httpStatus \in {200, 500} :
          /\ fetched' = "fulfilled"
          /\ responses' = Append(responses, SettledResponse("fulfilled"))
    /\ wpc' = "responded"
    /\ UNCHANGED <<wconf, req, hBarcode, hAnalysis, posts, bvars, avars, lvars>>

\* The call failed (no URL to call, or the transport failed): the promise
\* is rejected and the catch block answers.
FetchRejected ==
    /\ wpc = "awaiting"
    /\ fetched' = "rejected"
    /\ posts' = PostsAfterRejection(posts)
    /\ responses' = Append(responses, SettledResponse("rejected"))
    /\ wpc' = "responded"
    /\ UNCHANGED <<wconf, req, hBarcode, hAnalysis, bvars, avars, lvars>>

\* The answered call is over: nothing of it is kept (the handler's locals
\* are per call; the servers hold no other state).
Finish ==
    /\ wpc = "responded"
    /\ req' = None
    /\ wpc' = "idle"
    /\ hBarcode' = Unset /\ hAnalysis' = Unset
    /\ posts' = <<>> /\ fetched' = "none" /\ responses' = <<>>
    /\ UNCHANGED <<wconf, bvars, avars, lvars>>

NextWebhook == Receive \/ FetchFulfilled \/ FetchRejected \/ Finish

SpecWebhook == InitWebhook /\ [][NextWebhook]_vars

(***************************************************************************)
(* C4, C5, C6                                                              *)
(***************************************************************************)
\* The handler extracted a barcode and the analysis it ran names a status.
Forwardable ==
    /\ hBarcode # Unset /\ hBarcode # None
    /\ hAnalysis # Unset /\ hAnalysis # None /\ hAnalysis.status # None

\* C4: for every inbound call the handler makes exactly one outbound POST
\* when it extracted a barcode from the message text and the analysis gave
\* a status, and none in every other case; never more than one; the body
\* carries the extracted barcode, the analysed status and lastReactor as
\* user.
C4_OnePostWhenForwardable ==
    /\ Len(posts) <= 1
    /\ wpc # "idle" =>
         /\ Forwardable =>
               /\ Len(posts) = 1
               /\ posts[1].barcode = hBarcode
               /\ posts[1].status = hAnalysis.status
               /\ posts[1].user = hAnalysis.lastReactor
         /\ ~Forwardable => posts = <<>>
    /\ wpc = "idle" => posts = <<>>

\* A call whose caption holds the barcode, with a dated thumbs-down and an
\* undated thumbs-up, has been forwarded once, as "Found" with the
\* thumbs-down reactor as user, and answered after the endpoint failed.
C4_Witness ==
    /\ wpc = "responded" /\ fetched = "rejected"
    /\ Len(posts) = 1
    /\ posts[1].barcode = Str(Repeat("1", MaxDigits))
    /\ posts[1].status = Str(StatusFound)
    /\ posts[1].user = "L1"

\* C5: once the outbound POST is made, the handler answers 200 "ok" when the
\* call succeeded and 500 "error" when it failed; it answers only after the
\* call completed; a failed call is not sent again.
C5_AnswerFollowsFetch ==
    /\ wpc = "awaiting" => responses = <<>> /\ fetched = "pending"
    /\ (posts # <<>> /\ responses # <<>>) =>
          /\ fetched \in {"fulfilled", "rejected"}
          /\ Len(posts) = 1
          /\ fetched = "fulfilled" => responses = <<Response(200, "ok")>>
          /\ fetched = "rejected" => responses = <<Response(500, "error")>>

\* The outbound call failed and the caller got 500 "error".
C5_Witness ==
    /\ wpc = "responded"
    /\ posts # <<>>
    /\ fetched = "rejected"
    /\ responses = <<Response(500, "error")>>

AnswersOfSpec ==
    {Response(200, "no barcode"), Response(200, "no relevant reaction"),
     Response(200, "ok"), Response(500, "error")}

\* Every call is answered once, and only a pending outbound call delays the
\* answer: the answer is there when the handler is done, and while it is not
\* the fetch can still settle.
AnsweredOnce ==
    /\ Len(responses) <= 1
    /\ wpc = "responded" => Len(responses) = 1
    /\ wpc = "awaiting" => ENABLED (FetchFulfilled \/ FetchRejected)

\* C6 as claimed: every inbound call, for any update and any configuration,
\* gets exactly one response, which is one of 200 "no barcode", 200 "no
\* relevant reaction", 200 "ok", 500 "error"; no call is rejected for
\* authentication and none is left without a response.
C6_AsClaimed ==
    /\ AnsweredOnce
    /\ \A i \in 1..Len(responses) : responses[i] \in AnswersOfSpec

\* C6 amended: every inbound call gets exactly one response, which is one
\* of the four above or, from server.js alone, 401 "Invalid secret" when
\* WEBHOOK_SECRET is configured and the call's x-webhook-secret header is
\* not that secret; part_000 rejects no call.
C6_AnsweredOnceOr401 ==
    /\ AnsweredOnce
    /\ \A i \in 1..Len(responses) :
          \/ responses[i] \in AnswersOfSpec
          \/ /\ responses[i] = Response(401, "Invalid secret")
             /\ wrev = "server" /\ secret # <<>> /\ req.header # secret
    /\ (wpc = "responded" /\ wrev = "server" /\ secret # <<>> /\ req.header # secret)
          => responses = <<Response(401, "Invalid secret")>>

\* server.js has rejected a call that came without the configured secret.
C6_Witness ==
    /\ wrev = "server" /\ secret # <<>> /\ req # None /\ req.header = <<>>
    /\ responses = <<Response(401, "Invalid secret")>>

(***************************************************************************)
(* doPost of apps_script.gs.                                               *)
(*                                                                         *)
(* A string is a sequence of tokens: " " is white space, any other token a *)
(* run of other characters.  A row holds its B, G and I cells; an empty    *)
(* cell reads as ''.  An execution goes through the calls it makes on the  *)
(* spreadsheet, one at a time: openById, then per sheet getValues and, per *)
(* matching row of what it read, setValue on G and setValue on I.  What it *)
(* computes between two such calls is part of the step of the first.       *)
(***************************************************************************)
\* 'Проверить на МХ'
Sentinel == <<"Proverit", " ", "na", " ", "MX">>

\* String.prototype.trim
Trim(s) ==
    LET solid == {i \in 1..Len(s) : s[i] # " "}
    IN  IF solid = {} THEN <<>> ELSE SubSeq(s, Min(solid), Max(solid))

\* String(x || '').trim() for a field of the body that may be absent.
TrimmedField(x) == IF x = None THEN <<>> ELSE Trim(x.v)

\* Line 37, for a row of `data`: its B cell is not empty and equals the
\* barcode, and its G cell is the sentinel, both trimmed.
\* The first mutant compares the cells untrimmed, the second does not look
\* at the G cell.
RowMatchesUntrimmed(row, bc) ==
    /\ row.B # <<>>
    /\ row.B = bc /\ row.G = Sentinel

RowMatchesAnyStatus(row, bc) ==
    /\ Trim(row.B) # <<>>
    /\ Trim(row.B) = bc

RowMatches(row, bc) ==
    /\ Trim(row.B) # <<>>
    /\ Trim(row.B) = bc /\ Trim(row.G) = Sentinel

\* The loop of line 32 from row k on (row 1, the header, is never looked
\* at): the next row of `data` to update, 0 when there is none.
NextMatch(data, k, bc) ==
    LET hits == {j \in k..Len(data) : j >= 2 /\ RowMatches(data[j], bc)}
    IN  IF hits = {} THEN 0 ELSE Min(hits)

\* sheet.getRange(k, 7).setValue(v) and sheet.getRange(k, 9).setValue(v).
\* The mutant writes the user cell in both calls.
SetValueUserOnly(wb, s, k, col, v) ==
    [wb EXCEPT ![s][k].I = v]

SetValue(wb, s, k, col, v) ==
    IF col = "G" THEN [wb EXCEPT ![s][k].G = v] ELSE [wb EXCEPT ![s][k].I = v]

OkResponse(n) == [ok |-> TRUE, updated |-> n]
ErrorResponse(msg) == [ok |-> FALSE, error |-> msg]

Slots == {"a", "b"}

\* The locals of an execution that parsed its body.
Barcode(c) == TrimmedField(lreq[c].body.barcode)
Status(c) == TrimmedField(lreq[c].body.status)
User(c) == TrimmedField(lreq[c].body.user)

\* Line 20: if (!barcode || !status).
\* The mutant tests the barcode alone.
FieldsMissingBarcodeOnly(bc, st) == bc = <<>>

FieldsMissing(bc, st) == bc = <<>> \/ st = <<>>

\* Lines 13-22: the body is parsed and its fields are trimmed; the
\* execution returns when parsing throws or a field is empty.
Start(c, e) ==
    /\ lpc[c] = "idle"
    /\ lreq' = [lreq EXCEPT ![c] = e]
    /\ lpre' = [lpre EXCEPT ![c] = sheets]
    /\ lpreDecided' = [lpreDecided EXCEPT ![c] = decided]
    /\ lcounted' = [lcounted EXCEPT ![c] = {}]
    /\ lupdated' = [lupdated EXCEPT ![c] = 0]
    /\ IF e.k = "garbage"
       THEN /\ lpc' = [lpc EXCEPT ![c] = "done"]
            /\ lresp' = [lresp EXCEPT ![c] = ErrorResponse("parse error")]
            /\ lfailed' = TRUE
       ELSE IF FieldsMissing(TrimmedField(e.body.barcode), TrimmedField(e.body.status))
       THEN /\ lpc' = [lpc EXCEPT ![c] = "done"]
            /\ lresp' = [lresp EXCEPT ![c] = ErrorResponse("no barcode or status")]
            /\ lfailed' = TRUE
       ELSE /\ lpc' = [lpc EXCEPT ![c] = "open"]
            /\ lresp' = [lresp EXCEPT ![c] = None]
            /\ lfailed' = lfailed
    /\ UNCHANGED <<sheets, lsheet, ldata, lrow, decided, lastG, lastI>>

\* Lines 24-26: the spreadsheet opens.
OpenById(c) ==
    /\ lpc[c] = "open"
    /\ lpc' = [lpc EXCEPT ![c] = "read"]
    /\ lsheet' = [lsheet EXCEPT ![c] = 1]
    /\ UNCHANGED <<sheets, lreq, ldata, lrow, lupdated, lresp, lpre, lpreDecided,
                   lfailed, lcounted, decided, lastG, lastI>>

\* Lines 24 and 48-50: openById throws, and the catch block answers.
OpenByIdThrows(c) ==
    /\ lpc[c] = "open"
    /\ lpc' = [lpc EXCEPT ![c] = "done"]
    /\ lresp' = [lresp EXCEPT ![c] = ErrorResponse("cannot open")]
    /\ lfailed' = TRUE
    /\ UNCHANGED <<sheets, lreq, lsheet, ldata, lrow, lupdated, lpre, lpreDecided,
                   lcounted, decided, lastG, lastI>>

\* Where the execution goes once it is at row k of the `data` of sheet s:
\* to the next row to update, to the next sheet, or to its return (line 47).
Proceed(c, s, data, k) ==
    LET m == NextMatch(data, k, Barcode(c))
    IN  IF m # 0
        THEN /\ lpc' = [lpc EXCEPT ![c] = "setG"]
             /\ lrow' = [lrow EXCEPT ![c] = m]
             /\ lsheet' = [lsheet EXCEPT ![c] = s]
             /\ lresp' = lresp
        ELSE IF s < Len(sheets)
        THEN /\ lpc' = [lpc EXCEPT ![c] = "read"]
             /\ lrow' = [lrow EXCEPT ![c] = 0]
             /\ lsheet' = [lsheet EXCEPT ![c] = s + 1]
             /\ lresp' = lresp
        ELSE /\ lpc' = [lpc EXCEPT ![c] = "done"]
             /\ lrow' = [lrow EXCEPT ![c] = 0]
             /\ lsheet' = [lsheet EXCEPT ![c] = s]
             /\ lresp' = [lresp EXCEPT ![c] = OkResponse(lupdated'[c])]

\* Lines 29-30: getValues reads the sheet as it is now.
GetValues(c) ==
    /\ lpc[c] = "read"
    /\ ldata' = [ldata EXCEPT ![c] = sheets[lsheet[c]]]
    /\ lupdated' = lupdated
    /\ Proceed(c, lsheet[c], sheets[lsheet[c]], 2)
    /\ UNCHANGED <<sheets, lreq, lpre, lpreDecided, lfailed, lcounted, decided,
                   lastG, lastI>>

\* Line 39: the status is written to the row's G cell.
SetG(c) ==
    /\ lpc[c] = "setG"
    /\ sheets' = SetValue(sheets, lsheet[c], lrow[c], "G", Status(c))
    /\ lastG' = [lastG EXCEPT ![lsheet[c]][lrow[c]] = c]
    /\ lpc' = [lpc EXCEPT ![c] = "setI"]
    /\ UNCHANGED <<lreq, lsheet, ldata, lrow, lupdated, lresp, lpre, lpreDecided,
                   lfailed, lcounted, decided, lastI>>

\* Lines 40-41: the user is written to the row's I cell and the row is
\* counted; the loop goes on in `data`.
SetI(c) ==
    /\ lpc[c] = "setI"
    /\ sheets' = SetValue(sheets, lsheet[c], lrow[c], "I", User(c))
    /\ lastI' = [lastI EXCEPT ![lsheet[c]][lrow[c]] = c]
    /\ lupdated' = [lupdated EXCEPT ![c] = @ + 1]
    /\ lcounted' = [lcounted EXCEPT ![c] = @ \cup {<<lsheet[c], lrow[c]>>}]
    /\ decided' = IF decided[lsheet[c]][lrow[c]] = None
                  THEN [decided EXCEPT ![lsheet[c]][lrow[c]] =
                           [status |-> Status(c), user |-> User(c)]]
                  ELSE decided
    /\ Proceed(c, lsheet[c], ldata[c], lrow[c] + 1)
    /\ UNCHANGED <<lreq, ldata, lpre, lpreDecided, lfailed, lastG>>

\* The execution is over and its slot is free for the next call.
Return(c) ==
    /\ lpc[c] = "done"
    /\ lpc' = [lpc EXCEPT ![c] = "idle"]
    /\ lreq' = [lreq EXCEPT ![c] = None]
    /\ lresp' = [lresp EXCEPT ![c] = None]
    /\ lpre' = [lpre EXCEPT ![c] = <<>>]
    /\ lpreDecided' = [lpreDecided EXCEPT ![c] = <<>>]
    /\ lcounted' = [lcounted EXCEPT ![c] = {}]
    /\ lupdated' = [lupdated EXCEPT ![c] = 0]
    /\ ldata' = [ldata EXCEPT ![c] = <<>>]
    /\ lsheet' = [lsheet EXCEPT ![c] = 0]
    /\ UNCHANGED <<sheets, lrow, lfailed, decided, lastG, lastI>>

(***************************************************************************)
(* The spreadsheets and the calls.                                         *)
(***************************************************************************)
MaxRows == 3

B1 == <<"4600000000017">>
B2 == <<"4600000000024">>

\* The data rows a sheet may hold at first: the barcode B1 awaiting its
\* check (both cells with white space around), B1 already checked, another
\* barcode awaiting its check, and a row without a barcode.
RowKinds ==
    {[B |-> <<" ">> \o B1 \o <<" ">>, G |-> Sentinel \o <<" ">>, I |-> <<>>],
     [B |-> B1, G |-> <<"Found">>, I |-> <<"Olga">>],
     [B |-> B2, G |-> Sentinel, I |-> <<>>],
     [B |-> <<>>, G |-> Sentinel, I |-> <<>>]}

\* Row 1 of the first sheet is a header; the second sheet has none, and its
\* row 1 looks like a row awaiting its check.
HeaderRow == [B |-> <<"Barcode">>, G |-> <<"Status">>, I |-> <<"User">>]
FirstRowLikeData == [B |-> B1, G |-> Sentinel, I |-> <<>>]

Rows(n) == [1..n -> RowKinds]

\* Two sheets with at most MaxRows data rows between them.
Workbooks ==
    {<<(<<HeaderRow>> \o r1), (<<FirstRowLikeData>> \o r2)>> :
        r1 \in UNION {Rows(n) : n \in 0..MaxRows},
        r2 \in UNION {Rows(n) : n \in 0..MaxRows}}

Garbage == [k |-> "garbage"]
Json(b, st, u) == [k |-> "json", body |-> [barcode |-> b, status |-> st, user |-> u]]

Events ==
    {Garbage} \cup
    {Json(b, st, u) :
        b \in {None, Str(<<" ">> \o B1)},
        st \in {Str(<<" ">>), Str(<<"Found", " ">>), Str(Sentinel)},
        u \in {Str(<<"Anna">>), Str(<<"Boris", " ">>)}}

InitLedgerWith(wb) ==
    /\ sheets = wb
    /\ lpc = [c \in Slots |-> "idle"]
    /\ lreq = [c \in Slots |-> None]
    /\ lsheet = [c \in Slots |-> 0]
    /\ ldata = [c \in Slots |-> <<>>]
    /\ lrow = [c \in Slots |-> 0]
    /\ lupdated = [c \in Slots |-> 0]
    /\ lresp = [c \in Slots |-> None]
    /\ lpre = [c \in Slots |-> <<>>]
    /\ lpreDecided = [c \in Slots |-> <<>>]
    /\ lfailed = FALSE
    /\ lcounted = [c \in Slots |-> {}]
    /\ decided = [s \in 1..Len(wb) |-> [k \in 1..Len(wb[s]) |-> None]]
    /\ lastG = [s \in 1..Len(wb) |-> [k \in 1..Len(wb[s]) |-> "none"]]
    /\ lastI = [s \in 1..Len(wb) |-> [k \in 1..Len(wb[s]) |-> "none"]]
    /\ text = None /\ brev = "none" /\ barcode = Unset
    /\ update = None /\ arev = "none" /\ analysis = Unset
    /\ WebhookUnused

InitLedger ==
    \E wb \in Workbooks :
        Len(wb[1]) + Len(wb[2]) <= MaxRows + 2 /\ InitLedgerWith(wb)

Others == UNCHANGED <<bvars, avars, wvars>>

\* Calls handled one at a time: one execution, begun when the last is over.
NextLedger ==
    \/ \E e \in Events : Start("a", e) /\ Others
    \/ OpenById("a") /\ Others
    \/ OpenByIdThrows("a") /\ Others
    \/ GetValues("a") /\ Others
    \/ SetG("a") /\ Others
    \/ SetI("a") /\ Others
    \/ Return("a") /\ Others

SpecLedger == InitLedger /\ [][NextLedger]_vars

\* Two executions at once, for the same barcode with different status and
\* user.
RaceEvent(c) ==
    IF c = "a" THEN Json(Str(B1), Str(<<"Found">>), Str(<<"Anna">>))
    ELSE Json(Str(B1), Str(<<"NotFound">>), Str(<<"Boris">>))

NextRace ==
    \E c \in Slots :
        \/ Start(c, RaceEvent(c)) /\ Others
        \/ OpenById(c) /\ Others
        \/ GetValues(c) /\ Others
        \/ SetG(c) /\ Others
        \/ SetI(c) /\ Others

SpecRace == InitLedger /\ [][NextRace]_vars

(***************************************************************************)
(* C1, C7, C10 (calls handled one at a time) and C9 (two at once)          *)
(***************************************************************************)
CellsOf(wb) == {<<s, k>> \in (1..Len(wb)) \X (1..(MaxRows + 1)) : k <= Len(wb[s])}

\* Row k of sheet s of the spreadsheet wb is a data row awaiting its check
\* for the barcode bc.
Pending(wb, s, k, bc) ==
    k >= 2 /\ Trim(wb[s][k].B) = bc /\ Trim(wb[s][k].G) = Sentinel

SameShape(wb1, wb2) ==
    Len(wb1) = Len(wb2) /\ \A s \in 1..Len(wb1) : Len(wb1[s]) = Len(wb2[s])

\* The execution in slot c ran its scan to the end.
Scanned(c) == lpc[c] = "done" /\ lresp[c] # None /\ lresp[c].ok

\* C1: for one call with a barcode and a status, for every data row of
\* every sheet: the row's G and I cells are overwritten with the (trimmed)
\* status and user if and only if its trimmed B equals the trimmed barcode
\* and its trimmed G the sentinel; every such row of every sheet is
\* updated; every other row, the header row and the B column stay as they
\* were.
C1_UpdatedIffPending ==
    Scanned("a") =>
        /\ SameShape(sheets, lpre["a"])
        /\ \A cell \in CellsOf(sheets) :
              LET s == cell[1]
                  k == cell[2]
                  was == lpre["a"][s][k]
                  now == sheets[s][k]
              IN  /\ now.B = was.B
                  /\ (cell \in lcounted["a"]) <=> Pending(lpre["a"], s, k, Barcode("a"))
                  /\ Pending(lpre["a"], s, k, Barcode("a")) =>
                        now.G = Status("a") /\ now.I = User("a")
                  /\ ~Pending(lpre["a"], s, k, Barcode("a")) =>
                        now.G = was.G /\ now.I = was.I
        /\ lresp["a"] = OkResponse(Cardinality(lcounted["a"]))

\* A call has updated a row in each sheet, and left alone the first row of
\* the second sheet and a checked row with the same barcode.
C1_Witness ==
    /\ Scanned("a")
    /\ \E k1, k2 \in 2..(MaxRows + 1) :
          /\ <<1, k1>> \in lcounted["a"] /\ <<2, k2>> \in lcounted["a"]
    /\ sheets[2][1] = FirstRowLikeData
    /\ \E k \in 2..Len(sheets[1]) :
          Trim(sheets[1][k].B) = Barcode("a") /\ sheets[1][k].I = <<"Olga">>

\* The rows of wb awaiting their check for the barcode bc.
PendingCells(wb, bc) == {cell \in CellsOf(wb) : Pending(wb, cell[1], cell[2], bc)}

\* C7: when the barcode or the status is empty after trimming, doPost
\* answers {ok: false, error} and changes no cell; when parsing the body or
\* opening the spreadsheet throws, it answers {ok: false, error} as well;
\* and a well-formed call that comes after such a call is served as any
\* other (it updates and counts every row awaiting its check).
C7_FailuresAnswered ==
    lpc["a"] = "done" =>
        /\ lresp["a"] # None
        /\ (lreq["a"].k = "garbage" \/ lsheet["a"] = 0) =>
              /\ ~lresp["a"].ok
              /\ sheets = lpre["a"]
        /\ (lreq["a"].k = "json" /\
            (Barcode("a") = <<>> \/ Status("a") = <<>>)) =>
              /\ lresp["a"] = ErrorResponse("no barcode or status")
              /\ sheets = lpre["a"]
        /\ (lfailed /\ lresp["a"].ok) =>
              /\ lresp["a"].updated = Cardinality(PendingCells(lpre["a"], Barcode("a")))
              /\ \A cell \in PendingCells(lpre["a"], Barcode("a")) :
                    sheets[cell[1]][cell[2]].G = Status("a")

\* After a call that failed, a well-formed call has updated a row.
C7_Witness ==
    /\ lfailed
    /\ Scanned("a")
    /\ lresp["a"].updated >= 1

\* Between calls, or when a call has returned.
AtRest == lpc["a"] \in {"idle", "done"}

\* A call changes no row whose G cell did not hold the sentinel, and counts
\* only rows that did.
SettledRowsKept ==
    lpc["a"] = "done" =>
        /\ \A cell \in CellsOf(sheets) :
              LET was == lpre["a"][cell[1]][cell[2]]
                  now == sheets[cell[1]][cell[2]]
              IN  Trim(was.G) # Sentinel => now.G = was.G /\ now.I = was.I
        /\ \A cell \in lcounted["a"] :
              Trim(lpre["a"][cell[1]][cell[2]].G) = Sentinel

\* C10 as claimed: over any sequence of calls handled one at a time, a row
\* whose G is not the sentinel is not changed by any later call; the first
\* call that matches a row awaiting its check decides its status and user
\* for good, and a later call counts no row decided before it.
C10_AsClaimed ==
    /\ SettledRowsKept
    /\ AtRest =>
          \A cell \in CellsOf(sheets) :
              decided[cell[1]][cell[2]] # None =>
                  /\ sheets[cell[1]][cell[2]].G = decided[cell[1]][cell[2]].status
                  /\ sheets[cell[1]][cell[2]].I = decided[cell[1]][cell[2]].user
    /\ lpc["a"] = "done" =>
          \A cell \in lcounted["a"] : lpreDecided["a"][cell[1]][cell[2]] = None

\* C10 amended: over any sequence of calls handled one at a time, a row
\* whose G is not the sentinel is not changed by any later call; the first
\* call that matches a row awaiting its check decides its status and user
\* for good, and a later call counts no row decided before it, provided the
\* status that call wrote is not itself the sentinel (a call whose status is
\* the sentinel leaves the row awaiting its check).
C10_FirstSettlingCallDecides ==
    /\ SettledRowsKept
    /\ AtRest =>
          \A cell \in CellsOf(sheets) :
              (/\ decided[cell[1]][cell[2]] # None
               /\ decided[cell[1]][cell[2]].status # Sentinel) =>
                  /\ sheets[cell[1]][cell[2]].G = decided[cell[1]][cell[2]].status
                  /\ sheets[cell[1]][cell[2]].I = decided[cell[1]][cell[2]].user
    /\ lpc["a"] = "done" =>
          \A cell \in lcounted["a"] :
              \/ lpreDecided["a"][cell[1]][cell[2]] = None
              \/ lpreDecided["a"][cell[1]][cell[2]].status = Sentinel

\* A row was decided as "Found" by Anna, and a later call for the same
\* barcode, by Boris, has returned without counting it.
C10_Witness ==
    /\ Scanned("a")
    /\ User("a") = <<"Boris">>
    /\ \E cell \in CellsOf(sheets) :
          /\ lpreDecided["a"][cell[1]][cell[2]] # None
          /\ lpreDecided["a"][cell[1]][cell[2]] =
                [status |-> <<"Found">>, user |-> <<"Anna">>]
          /\ Trim(sheets[cell[1]][cell[2]].B) = Barcode("a")
          /\ cell \notin lcounted["a"]
          /\ sheets[cell[1]][cell[2]].I = <<"Anna">>

BothDone == \A c \in Slots : lpc[c] = "done"

\* Every execution that is done counted each row it wrote.
CountsKept ==
    \A c \in Slots :
        lpc[c] = "done" => lresp[c] = OkResponse(Cardinality(lcounted[c]))

\* C9 as claimed: when two calls with the same barcode and different status
\* and user have both written and counted a row, the row ends with the
\* values of whichever call wrote last.
C9_AsClaimed ==
    /\ CountsKept
    /\ BothDone =>
          \A cell \in lcounted["a"] \cap lcounted["b"] :
              LET last == lastI[cell[1]][cell[2]]
              IN  /\ sheets[cell[1]][cell[2]].G = Status(last)
                  /\ sheets[cell[1]][cell[2]].I = User(last)

\* C9 amended: two calls with the same barcode and different status and
\* user can both pass the sentinel check for a row, both write it and both
\* count it; each of the row's G and I cells then holds the value of
\* whichever call wrote that cell last, so that the row may end with the
\* status of one call and the user of the other.
C9_LastWriterPerCell ==
    /\ CountsKept
    /\ \A cell \in CellsOf(sheets) :
          /\ lastG[cell[1]][cell[2]] # "none" =>
                sheets[cell[1]][cell[2]].G = Status(lastG[cell[1]][cell[2]])
          /\ lastI[cell[1]][cell[2]] # "none" =>
                sheets[cell[1]][cell[2]].I = User(lastI[cell[1]][cell[2]])

\* Both calls have counted the same row, which holds the status of one and
\* the user of the other.
C9_Witness ==
    /\ BothDone
    /\ \E cell \in lcounted["a"] \cap lcounted["b"] :
          /\ lastG[cell[1]][cell[2]] = "b" /\ lastI[cell[1]][cell[2]] = "a"
          /\ sheets[cell[1]][cell[2]].G = <<"NotFound">>
          /\ sheets[cell[1]][cell[2]].I = <<"Anna">>
          /\ lresp["a"].updated >= 1 /\ lresp["b"].updated >= 1

=============================================================================
